---- MODULE Spec2Model ----
(***************************************************************************)
(* State-machine model of google_photos_downloader.py: main() with its     *)
(* three commands (--list, --album-id, --all), list_albums,                *)
(* get_album_by_id, get_album_media_items, download_album and              *)
(* download_media_item.  The remote catalog, the HTTP transport and the    *)
(* filesystem's failures are the environment: every response and every     *)
(* failure the code has a branch for is a nondeterministic choice.         *)
(***************************************************************************)
EXTENDS Integers, Sequences, FiniteSets, TLC

\* ------------------------------------------------------------ constants
MAX_RETRIES == 3
NoToken == 0

\* ------------------------------------------------------------ bounds
MaxPages == 2
MaxItems == 2
MaxAlbums == 2

\* ------------------------------------------------------------ input domains
\* filenames of media items, album titles (sequences of characters)
Names == {"IMG_1.jpg", "IMG_2.jpg"}
Titles == {<<"a", " ">>, <<"/">>}
Item == [filename : Names, baseUrl : BOOLEAN]

\* ------------------------------------------------------------ pure helpers
\* c.isalnum() or c in (' ', '_', '-')
IsKept(c) == c \in {"a", "b", "1", "2", " ", "_", "-"}

RECURSIVE RStrip(_)
RStrip(s) ==
    IF s # <<>> /\ s[Len(s)] = " " THEN RStrip(SubSeq(s, 1, Len(s) - 1)) ELSE s

\* safe_album_title: keep the allowed characters, strip trailing blanks,
\* fall back to "Album_<id>" when nothing is left
SafeTitle(album) ==
    LET kept == RStrip(SelectSeq(album.title, IsKept))
    IN  IF kept = <<>> THEN <<"Album_", album.id>> ELSE kept

AlbumIdOf(k) == ToString(k)

Paths == { SafeTitle([id |-> AlbumIdOf(k), title |-> t]) : k \in 1..MaxAlbums, t \in Titles }

\* the accumulation step of both pagination loops
ExtendOverwrites(acc, found) == IF found # <<>> THEN found ELSE acc
Extend(acc, found) == IF found # <<>> THEN acc \o found ELSE acc

\* `if not next_page_token: break`
MorePages(token) == token # NoToken

\* the token the next request carries
NextRequestToken(results) == results.next

\* the retry test of the RequestException handler
RetryLeftOffByOne(attempt, max_retries) == attempt < max_retries
RetryLeft(attempt, max_retries) == attempt < max_retries - 1

\* `for attempt in range(max_retries)`
InRange(attempt, max_retries) == attempt < max_retries

\* `if not base_url`
HasBaseUrlAlways(item) == TRUE
HasBaseUrl(item) == item.baseUrl

\* `for i, item in enumerate(media_items)`: an item follows the i-th
HasNextSkipsLast(idx, n) == idx + 1 < n
HasNext(idx, n) == idx + 1 <= n

\* `if download_media_item(...): download_count += 1 else: fail_count += 1`
CountSuccess(count, returned) == IF returned THEN count + 1 ELSE count
CountFailAlways(count, returned) == count + 1
CountFail(count, returned) == IF returned THEN count ELSE count + 1

\* `if download_count == 0 and fail_count > 0`
AllFailedOffByOne(download_count, fail_count) == download_count = 0 /\ fail_count > 1
AllFailed(download_count, fail_count) == download_count = 0 /\ fail_count > 0

\* ------------------------------------------------------------ filesystem
NoZip == [exists |-> FALSE, whole |-> FALSE, entries |-> {}]
OldZip == [exists |-> TRUE, whole |-> TRUE, entries |-> {}]
NoFiles == [n \in Names |-> "absent"]
NoDir == [exists |-> FALSE, files |-> NoFiles]

\* Path.exists() of a staged file and of the archive
FileExistsNever(dir, name) == FALSE
FileExists(dir, name) == dir.exists /\ dir.files[name] # "absent"
ZipExistsNever(z) == FALSE
ZipExists(z) == z.exists

\* temp_album_dir.iterdir() filtered by is_file(): the names, which become
\* the arcnames of the archive
RegularFiles(dir) == { n \in Names : dir.files[n] # "absent" }

\* `for item_path in iterdir(): unlink(); rmdir()` under `except OSError`:
\* either everything is removed, or an OSError stops it with some files
\* already unlinked and the directory still there
CleanupOutcomes(dir) ==
    { [dir |-> NoDir, failed |-> FALSE] } \cup
    { [dir |-> [exists |-> TRUE,
                files |-> [n \in Names |-> IF n \in D THEN "absent" ELSE dir.files[n]]],
       failed |-> TRUE] : D \in SUBSET { m \in Names : dir.files[m] # "absent" } }

VARIABLES
    mode,          \* the command main() was given: list, album_id, all
    mainpc,        \* position of main(): get_album, list_albums, loop, done, crashed
    albums,        \* list_albums: albums collected
    albTok,        \* list_albums: next_page_token
    albReq,        \* page tokens list_albums has requested, in order
    albServed,     \* pages served to list_albums, in order
    albFailed,     \* a page fetch of list_albums raised
    ai,            \* index of the album of the for loop of main()
    invoked,       \* album indexes download_album was called with, in order
    zips,          \* archive file per safe title
    staging,       \* staging directory per safe title
    pc,            \* position inside download_album
    path,          \* safe_album_title of the running download_album
    media_items,   \* get_album_media_items: items collected
    mTok,          \* get_album_media_items: next_page_token
    mReq,          \* page tokens requested for the album, in order
    mServed,       \* pages served for the album, in order
    mFailed,       \* a page fetch of get_album_media_items raised
    i,             \* index of the item of the for loop of download_album
    download_count,
    fail_count,
    results,       \* return values of download_media_item, in call order
    outcome,       \* terminal state of the download_album run
    pending,       \* how download_album leaves: return or raise
    zipAtStart,    \* the archive existed when download_album was called
    dirAtStart,    \* the staging directory existed when it was called
    startFiles,    \* the files of the staging directory when it was called
    delFailed,     \* a deletion raised OSError during the run
    zipEntered,    \* the archive-writing step was entered
    madeDir,       \* mkdir was executed
    attempt,       \* download_media_item: loop variable
    gets,          \* download_media_item: GET requests issued by the call
    sleeps,        \* download_media_item: retry waits of the call
    last,          \* download_media_item: how the latest attempt ended
    allTransport,  \* every attempt of the call so far ended in a RequestException
    unlinkFailed,  \* download_media_item: filepath.unlink() raised OSError
    preFile,       \* destination file content when the call started
    ret            \* download_media_item: return value

mainVars == <<mode, mainpc, albums, albTok, albReq, albServed, albFailed, ai, invoked>>
fsVars == <<zips, staging>>
listVars == <<media_items, mTok, mReq, mServed, mFailed>>
runVars == <<pc, path, i, download_count, fail_count, results, outcome, pending,
             zipAtStart, dirAtStart, startFiles, delFailed, zipEntered, madeDir>>
dmiVars == <<attempt, gets, sleeps, last, allTransport, unlinkFailed, preFile, ret>>
vars == <<mainVars, fsVars, listVars, runVars, dmiVars>>

\* ------------------------------------------------------------ initial state
\* The download root may hold what an earlier, interrupted or finished, run
\* left for the album titled "a": an archive, a staging directory with a
\* downloaded file, or both.
Leftovers ==
    { [p |-> p, zip |-> z, dir |-> d] :
        p \in {<<"a">>}, z \in BOOLEAN, d \in {"none", "file"} }

LeftDir(d) ==
    IF d = "none" THEN NoDir
    ELSE [exists |-> TRUE,
          files |-> [n \in Names |-> IF d = "file" /\ n = "IMG_1.jpg" THEN "old" ELSE "absent"]]

RunIdle ==
    /\ pc = "idle" /\ path = <<>> /\ i = 0
    /\ download_count = 0 /\ fail_count = 0 /\ results = <<>>
    /\ outcome = "none" /\ pending = "return"
    /\ zipAtStart = FALSE /\ dirAtStart = FALSE /\ startFiles = NoFiles
    /\ delFailed = FALSE /\ zipEntered = FALSE /\ madeDir = FALSE
    /\ media_items = <<>> /\ mTok = NoToken /\ mReq = <<>> /\ mServed = <<>>
    /\ mFailed = FALSE
    /\ attempt = 0 /\ gets = 0 /\ sleeps = 0 /\ last = "none" /\ allTransport = TRUE
    /\ unlinkFailed = FALSE
    /\ preFile = "absent" /\ ret = FALSE

Modes == {"list", "album_id", "all"}

Init ==
    /\ mode \in Modes
    /\ mainpc = IF mode = "album_id" THEN "get_album" ELSE "list_albums"
    /\ albums = <<>> /\ albTok = NoToken /\ albReq = <<>> /\ albServed = <<>>
    /\ albFailed = FALSE
    /\ ai = 1 /\ invoked = <<>>
    /\ \E l \in Leftovers :
         /\ zips = [p \in Paths |-> IF p = l.p /\ l.zip THEN OldZip ELSE NoZip]
         /\ staging = [p \in Paths |-> IF p = l.p THEN LeftDir(l.dir) ELSE NoDir]
    /\ RunIdle

\* ------------------------------------------------------------ list_albums
\* main() after list_albums returned: --list prints the albums and ends,
\* --all enters the loop `if albums:`
AfterListing(m, found) == IF m = "all" /\ found # <<>> THEN "loop" ELSE "done"

\* One iteration of the `while True` of list_albums: the request, and then
\* either the except branch (the albums collected so far are returned) or
\* the page is appended and the token taken over.  main() continues with
\* `if albums:`.
ListAlbumsPage ==
    /\ mainpc = "list_albums"
    /\ albReq' = Append(albReq, albTok)
    /\ \E ok \in BOOLEAN :
         IF ~ok
         THEN /\ albFailed' = TRUE
              /\ mainpc' = AfterListing(mode, albums)
              /\ UNCHANGED <<albums, albTok, albServed>>
         ELSE \E n \in 0..(MaxAlbums - Len(albums)), more \in BOOLEAN :
              \E titles \in [1..n -> Titles] :
                LET found == [k \in 1..n |->
                                [id |-> AlbumIdOf(Len(albums) + k), title |-> titles[k]]]
                    results_ == [items |-> found,
                                 next |-> IF more THEN Len(albServed) + 1 ELSE NoToken]
                    all == Extend(albums, found)
                IN  /\ more => Len(albServed) + 1 < MaxPages
                    /\ albums' = all
                    /\ albServed' = Append(albServed, results_)
                    /\ albTok' = NextRequestToken(results_)
                    /\ albFailed' = FALSE
                    /\ mainpc' = IF MorePages(NextRequestToken(results_)) THEN "list_albums"
                                 ELSE AfterListing(mode, all)
    /\ UNCHANGED <<mode, ai, invoked, fsVars, listVars, runVars, dmiVars>>

\* ------------------------------------------------------------ get_album_by_id
\* --album-id: the album of that id, whatever its title, or None (404, any
\* other error).  The album is kept as the one element of albums, so that
\* main's single call of download_album is the loop of length one.
GetAlbumById ==
    /\ mainpc = "get_album"
    /\ \E found \in BOOLEAN :
         IF found
         THEN \E t \in Titles :
                /\ albums' = <<[id |-> AlbumIdOf(1), title |-> t]>>
                /\ mainpc' = "loop"
         ELSE /\ albums' = albums
              /\ mainpc' = "done"
    /\ UNCHANGED <<mode, albTok, albReq, albServed, albFailed, ai, invoked, fsVars,
                   listVars, runVars, dmiVars>>

\* ------------------------------------------------------------ main loop
\* main(): `download_album(service, album, ...)` for albums[ai]; the callee
\* computes safe_album_title and starts get_album_media_items
CallDownloadAlbum ==
    /\ mainpc = "loop" /\ pc = "idle"
    /\ invoked' = Append(invoked, ai)
    /\ path' = SafeTitle(albums[ai])
    /\ zipAtStart' = zips[SafeTitle(albums[ai])].exists
    /\ dirAtStart' = staging[SafeTitle(albums[ai])].exists
    /\ startFiles' = staging[SafeTitle(albums[ai])].files
    /\ pc' = "get_items"
    /\ albTok' = NoToken /\ albReq' = <<>> /\ albServed' = <<>> /\ albFailed' = FALSE
    /\ UNCHANGED <<mode, mainpc, albums, ai, fsVars,
                   listVars, i, download_count, fail_count, results, outcome, pending,
                   delFailed, zipEntered, madeDir, dmiVars>>

\* download_album has returned or raised: main() has no handler, so an
\* exception ends the program; otherwise the for loop advances
ReturnToMain ==
    /\ pc = "returned"
    /\ IF pending = "raise"
       THEN /\ mainpc' = "crashed"
            /\ ai' = ai
       ELSE /\ ai' = ai + 1
            /\ mainpc' = IF ai + 1 <= Len(albums) THEN "loop" ELSE "done"
    /\ pc' = "idle" /\ path' = <<>> /\ i' = 0
    /\ download_count' = 0 /\ fail_count' = 0 /\ results' = <<>>
    /\ outcome' = "none" /\ pending' = "return"
    /\ zipAtStart' = FALSE /\ dirAtStart' = FALSE /\ startFiles' = NoFiles
    /\ delFailed' = FALSE /\ zipEntered' = FALSE /\ madeDir' = FALSE
    /\ media_items' = <<>> /\ mTok' = NoToken /\ mReq' = <<>> /\ mServed' = <<>>
    /\ mFailed' = FALSE
    /\ attempt' = 0 /\ gets' = 0 /\ sleeps' = 0 /\ last' = "none" /\ allTransport' = TRUE
    /\ unlinkFailed' = FALSE
    /\ preFile' = "absent" /\ ret' = FALSE
    /\ UNCHANGED <<mode, albums, albTok, albReq, albServed, albFailed, invoked, fsVars>>

\* ------------------------------------------------------------ get_album_media_items
\* One iteration of the `while True` of get_album_media_items
GetMediaPage ==
    /\ pc = "get_items"
    /\ mReq' = Append(mReq, mTok)
    /\ \E ok \in BOOLEAN :
         IF ~ok
         THEN /\ mFailed' = TRUE
              /\ pc' = "check"
              /\ UNCHANGED <<media_items, mTok, mServed>>
         ELSE \E n \in 0..(MaxItems - Len(media_items)), more \in BOOLEAN :
              \E found \in [1..n -> Item] :
                LET results_ == [items |-> found,
                                 next |-> IF more THEN Len(mServed) + 1 ELSE NoToken]
                IN  /\ more => Len(mServed) + 1 < MaxPages
                    /\ media_items' = Extend(media_items, found)
                    /\ mServed' = Append(mServed, results_)
                    /\ mTok' = NextRequestToken(results_)
                    /\ mFailed' = FALSE
                    /\ pc' = IF MorePages(NextRequestToken(results_)) THEN "get_items"
                             ELSE "check"
    /\ UNCHANGED <<mainVars, fsVars, path, i, download_count, fail_count, results,
                   outcome, pending, zipAtStart, dirAtStart, startFiles, delFailed, zipEntered,
                   madeDir, dmiVars>>

\* ------------------------------------------------------------ download_album
\* `if not media_items: return`, then `if zip_file_path.exists(): return`.
\* When the run goes on, the locals of get_album_media_items are gone.
CheckItems ==
    /\ pc = "check"
    /\ IF media_items = <<>>
       THEN /\ outcome' = "NoMediaItems" /\ pc' = "returned"
            /\ UNCHANGED <<mTok, mReq, mServed, mFailed>>
       ELSE IF ZipExists(zips[path])
       THEN /\ outcome' = "ArchiveAlreadyExists" /\ pc' = "returned"
            /\ UNCHANGED <<mTok, mReq, mServed, mFailed>>
       ELSE /\ outcome' = outcome /\ pc' = "mkdir"
            /\ mTok' = NoToken /\ mReq' = <<>> /\ mServed' = <<>> /\ mFailed' = FALSE
    /\ UNCHANGED <<mainVars, fsVars, media_items, path, i, download_count, fail_count,
                   results, pending, zipAtStart, dirAtStart, startFiles, delFailed, zipEntered,
                   madeDir, dmiVars>>

\* temp_album_dir.mkdir(parents=True, exist_ok=True) inside try/finally with
\* no except clause: an OSError leaves through finally and propagates.  An
\* existing directory is kept with its files.
Mkdir ==
    /\ pc = "mkdir"
    /\ madeDir' = TRUE
    /\ \E ok \in BOOLEAN :
         IF ok
         THEN /\ staging' = [staging EXCEPT ![path].exists = TRUE]
              /\ i' = 1 /\ download_count' = 0 /\ fail_count' = 0
              /\ pc' = "item"
              /\ UNCHANGED <<outcome, pending>>
         ELSE /\ ~staging[path].exists
              /\ outcome' = "Raised" /\ pending' = "raise"
              /\ pc' = "finally"
              /\ UNCHANGED <<staging, i, download_count, fail_count>>
    /\ UNCHANGED <<mainVars, zips, listVars, path, results, zipAtStart, dirAtStart, startFiles,
                   delFailed, zipEntered, dmiVars>>

\* ------------------------------------------------------------ download_media_item
\* What one attempt can end in: the body streamed to the file; an HTTP or
\* connection error before the file is opened; a transport error while
\* iterating the body, the file already opened; an error that is no
\* RequestException, raised by open() or by f.write()
AttemptOutcomes == {"ok", "http_error", "stream_error", "open_error", "write_error"}
AnyError == {"http_error", "stream_error", "open_error", "write_error"}
TransportErrors == {"http_error", "stream_error"}

\* content of the destination after the attempt: open(filepath, 'wb') truncates
WrittenNothing(o, before) == before
Written(o, before) ==
    IF o = "ok" THEN "complete"
    ELSE IF o \in {"stream_error", "write_error"} THEN "partial"
    ELSE before

\* the call of download_media_item for media_items[i], up to the for loop
DmiCall ==
    /\ pc = "item"
    /\ preFile' = IF staging[path].exists
                  THEN staging[path].files[media_items[i].filename] ELSE "absent"
    /\ gets' = 0 /\ sleeps' = 0 /\ attempt' = 0 /\ last' = "none" /\ allTransport' = TRUE
    /\ unlinkFailed' = FALSE
    /\ IF ~HasBaseUrl(media_items[i])
       THEN ret' = FALSE /\ pc' = "item_ret"
       ELSE IF FileExists(staging[path], media_items[i].filename)
       THEN ret' = TRUE /\ pc' = "item_ret"
       ELSE IF InRange(0, MAX_RETRIES)
       THEN ret' = FALSE /\ pc' = "attempt"
       ELSE ret' = FALSE /\ pc' = "item_ret"
    /\ UNCHANGED <<mainVars, fsVars, listVars, path, i, download_count, fail_count,
                   results, outcome, pending, zipAtStart, dirAtStart, startFiles, delFailed,
                   zipEntered, madeDir>>

\* one iteration of `for attempt in range(max_retries)`: the GET, the write
\* of the body, and the handler of whatever was raised
DmiAttempt ==
    /\ pc = "attempt"
    /\ gets' = gets + 1
    /\ \E o \in AttemptOutcomes :
         LET name == media_items[i].filename
             dir1 == [staging[path] EXCEPT !.files[name] = Written(o, @)]
         IN  /\ last' = o
             /\ allTransport' = (allTransport /\ o \in TransportErrors)
             /\ IF o = "ok"
                THEN /\ staging' = [staging EXCEPT ![path] = dir1]
                     /\ ret' = TRUE /\ pc' = "item_ret"
                     /\ UNCHANGED <<attempt, sleeps, unlinkFailed, delFailed>>
                ELSE IF o \in TransportErrors
                THEN IF RetryLeft(attempt, MAX_RETRIES)
                     THEN /\ staging' = [staging EXCEPT ![path] = dir1]
                          /\ sleeps' = sleeps + 1
                          /\ attempt' = attempt + 1
                          /\ ret' = FALSE
                          /\ pc' = IF InRange(attempt + 1, MAX_RETRIES)
                                   THEN "attempt" ELSE "item_ret"
                          /\ UNCHANGED <<unlinkFailed, delFailed>>
                     ELSE /\ \E unlinkOk \in BOOLEAN :
                               /\ ~unlinkOk => FileExists(dir1, name)
                               /\ staging' = [staging EXCEPT ![path] =
                                     IF unlinkOk THEN [dir1 EXCEPT !.files[name] = "absent"]
                                     ELSE dir1]
                               /\ unlinkFailed' = ~unlinkOk
                               /\ delFailed' = (delFailed \/ ~unlinkOk)
                          /\ ret' = FALSE /\ pc' = "item_ret"
                          /\ UNCHANGED <<attempt, sleeps>>
                ELSE /\ staging' = [staging EXCEPT ![path] = dir1]
                     /\ ret' = FALSE /\ pc' = "item_ret"
                     /\ UNCHANGED <<attempt, sleeps, unlinkFailed, delFailed>>
    /\ UNCHANGED <<mainVars, zips, listVars, path, i, download_count, fail_count,
                   results, outcome, pending, zipAtStart, dirAtStart, startFiles, zipEntered,
                   madeDir, preFile>>

\* back in the for loop of download_album: count the result, next item
ItemReturn ==
    /\ pc = "item_ret"
    /\ results' = Append(results, ret)
    /\ download_count' = CountSuccess(download_count, ret)
    /\ fail_count' = CountFail(fail_count, ret)
    /\ i' = i + 1
    /\ pc' = IF HasNext(i, Len(media_items)) THEN "item" ELSE "after_loop"
    /\ attempt' = 0 /\ gets' = 0 /\ sleeps' = 0 /\ last' = "none" /\ allTransport' = TRUE
    /\ unlinkFailed' = FALSE /\ preFile' = "absent" /\ ret' = FALSE
    /\ UNCHANGED <<mainVars, fsVars, listVars, path, outcome, pending, zipAtStart,
                   dirAtStart, startFiles, delFailed, zipEntered, madeDir>>

\* ------------------------------------------------------------ download_album, end
\* after the loop: nothing downloaded -> remove the staging directory and
\* return (through finally); otherwise go on to the archive
AfterLoop ==
    /\ pc = "after_loop"
    /\ IF AllFailed(download_count, fail_count)
       THEN /\ \E c \in CleanupOutcomes(staging[path]) :
                 /\ staging' = [staging EXCEPT ![path] = c.dir]
                 /\ delFailed' = (delFailed \/ c.failed)
            /\ outcome' = "AllDownloadsFailed"
            /\ pc' = "finally"
       ELSE /\ pc' = "zip"
            /\ UNCHANGED <<staging, delFailed, outcome>>
    /\ UNCHANGED <<mainVars, zips, listVars, path, i, download_count, fail_count,
                   results, pending, zipAtStart, dirAtStart, startFiles, zipEntered, madeDir,
                   dmiVars>>

\* what writing the archive can end in: written; zipfile.BadZipFile;
\* OSError; an exception neither handler catches
ZipOutcomes == {"ok", "BadZipFile", "OSError", "Exception"}

\* `with zipfile.ZipFile(zip_file_path, 'w', ...)` and its two handlers
WriteZip ==
    /\ pc = "zip"
    /\ zipEntered' = TRUE
    /\ \E o \in ZipOutcomes, created \in BOOLEAN, unlinkOk \in BOOLEAN :
         LET partial == [exists |-> created, whole |-> FALSE, entries |-> {}]
         IN  IF o = "ok"
             THEN /\ created /\ unlinkOk
                  /\ zips' = [zips EXCEPT ![path] =
                        [exists |-> TRUE, whole |-> TRUE,
                         entries |-> RegularFiles(staging[path])]]
                  /\ outcome' = "ArchiveCreated"
                  /\ UNCHANGED <<pending, delFailed>>
             ELSE IF o = "BadZipFile"
             THEN /\ ~unlinkOk => created
                  /\ zips' = [zips EXCEPT ![path] =
                        IF ZipExists(partial) /\ unlinkOk THEN NoZip ELSE partial]
                  /\ delFailed' = (delFailed \/ ~unlinkOk)
                  /\ outcome' = "ArchiveFailed"
                  /\ UNCHANGED pending
             ELSE IF o = "OSError"
             THEN /\ unlinkOk
                  /\ zips' = [zips EXCEPT ![path] = partial]
                  /\ outcome' = "ArchiveFailed"
                  /\ UNCHANGED <<pending, delFailed>>
             ELSE /\ unlinkOk
                  /\ zips' = [zips EXCEPT ![path] = partial]
                  /\ outcome' = "Raised" /\ pending' = "raise"
                  /\ UNCHANGED delFailed
    /\ pc' = "finally"
    /\ UNCHANGED <<mainVars, staging, listVars, path, i, download_count, fail_count,
                   results, zipAtStart, dirAtStart, startFiles, madeDir, dmiVars>>

\* the finally clause: remove the staging directory if it is there
Finally ==
    /\ pc = "finally"
    /\ IF staging[path].exists
       THEN \E c \in CleanupOutcomes(staging[path]) :
                 /\ staging' = [staging EXCEPT ![path] = c.dir]
                 /\ delFailed' = (delFailed \/ c.failed)
       ELSE UNCHANGED <<staging, delFailed>>
    /\ pc' = "returned"
    /\ UNCHANGED <<mainVars, zips, listVars, path, i, download_count, fail_count,
                   results, outcome, pending, zipAtStart, dirAtStart, startFiles, zipEntered,
                   madeDir, dmiVars>>

\* ------------------------------------------------------------ specification
Next ==
    \/ ListAlbumsPage
    \/ GetAlbumById
    \/ CallDownloadAlbum
    \/ GetMediaPage
    \/ CheckItems
    \/ Mkdir
    \/ DmiCall
    \/ DmiAttempt
    \/ ItemReturn
    \/ AfterLoop
    \/ WriteZip
    \/ Finally
    \/ ReturnToMain

Spec == Init /\ [][Next]_vars

\* the runs of --list and --album-id: one album at most is downloaded
InitSingle == Init /\ mode \in {"list", "album_id"}
SpecSingle == InitSingle /\ [][Next]_vars

\* ------------------------------------------------------------ properties
\* download_media_item has returned and download_album has not yet counted it
DmiReturned == pc = "item_ret"
ThisItem == media_items[i]
\* content of the destination file of the call that has returned
ThisFile == IF staging[path].exists THEN staging[path].files[ThisItem.filename] ELSE "absent"

\* the case of C1: the item has a baseUrl, the destination did not exist,
\* and every attempt of the call ended in a transport/HTTP error
C1Case ==
    /\ DmiReturned
    /\ ThisItem.baseUrl /\ preFile = "absent"
    /\ last # "none" /\ allTransport

\* C1 as stated: when every attempt fails with a transport/HTTP error,
\* exactly MAX_RETRIES GETs are made, the call returns failure and no file
\* exists at the destination.
C1_Original ==
    C1Case => /\ gets = MAX_RETRIES
              /\ ret = FALSE
              /\ ThisFile = "absent"

\* C1 as amended: when every attempt fails with a transport/HTTP error,
\* exactly MAX_RETRIES GETs are made, the call returns failure, and no
\* file exists at the destination unless unlink itself raised OSError (the
\* deletion is best effort: then the partial file stays).
C1_RetryBound ==
    C1Case => /\ gets = MAX_RETRIES
              /\ ret = FALSE
              /\ (~unlinkFailed => ThisFile = "absent")
              /\ (unlinkFailed => ThisFile = "partial")

\* C1 witness: retries exhausted, the last attempt failed mid-stream after
\* part of the body was written, and the partial file has been removed
C1_Witness ==
    /\ C1Case /\ gets = MAX_RETRIES /\ last = "stream_error"
    /\ ~unlinkFailed /\ ThisFile = "absent" /\ sleeps = MAX_RETRIES - 1

\* C2 as stated: whenever the destination exists when download_media_item
\* is called, the call makes no request, leaves the file as it was and
\* returns success.
C2_Original ==
    (DmiReturned /\ preFile # "absent") =>
        /\ gets = 0
        /\ ThisFile = preFile
        /\ ret = TRUE

\* C2 as amended: for an item that has a baseUrl, whenever the destination
\* exists when download_media_item is called, the call makes no request,
\* leaves the file as it was and returns success (an item without baseUrl
\* returns failure before the destination is looked at).
C2_SkipExisting ==
    (DmiReturned /\ ThisItem.baseUrl /\ preFile # "absent") =>
        /\ gets = 0
        /\ ThisFile = preFile
        /\ ret = TRUE

\* C2 witness: the second call on a destination the first call downloaded
C2_Witness ==
    /\ DmiReturned /\ i = 2
    /\ media_items[1].filename = media_items[2].filename
    /\ ThisItem.baseUrl /\ preFile = "complete" /\ results = <<TRUE>>
    /\ gets = 0 /\ ret = TRUE

\* download_album has returned or raised; main() has not yet moved on
RunEnded == pc = "returned"
Terminal == {"ArchiveAlreadyExists", "NoMediaItems", "AllDownloadsFailed",
             "ArchiveCreated", "ArchiveFailed"}

\* C3: if writing the archive fails, no file exists at the archive path
\* when download_album returns (stated for the runs in which no deletion
\* raised, so that only the handlers of the archive step decide it).
C3_NoArchiveAfterFailure ==
    (RunEnded /\ zipEntered /\ outcome = "ArchiveFailed" /\ ~delFailed) =>
        ~zips[path].exists

\* C4: after download_album returns in any of its terminal outcomes, the
\* staging directory does not exist, whatever the filesystem held when the
\* run started, as long as no deletion raised.
C4_StagingGone ==
    (RunEnded /\ outcome \in Terminal /\ ~delFailed) => ~staging[path].exists

\* the items of the album have pairwise distinct filenames
DistinctNames ==
    \A a, b \in 1..Len(media_items) :
        media_items[a].filename = media_items[b].filename => a = b

\* C5: for items with distinct filenames of which at least one succeeded,
\* the archive created holds an entry for an item exactly if its fetch
\* returned success (stated for the runs that started without a staging
\* directory and in which no deletion raised).
C5_ArchiveHoldsSuccesses ==
    (/\ RunEnded /\ outcome = "ArchiveCreated"
     /\ DistinctNames /\ ~dirAtStart /\ ~delFailed
     /\ \E k \in 1..Len(results) : results[k]) =>
        \A k \in 1..Len(media_items) :
            (media_items[k].filename \in zips[path].entries) <=> results[k]

\* the case of C6: every item of a non-empty album has been fetched and
\* every fetch returned failure
C6Case ==
    /\ RunEnded
    /\ results # <<>> /\ Len(results) = Len(media_items)
    /\ \A k \in 1..Len(results) : ~results[k]

\* C6 as stated: when every item fetch fails, no archive is created, the
\* staging directory is removed and the run ends as all-downloads-failed
\* without entering the archive step.
C6_Original ==
    C6Case => /\ outcome = "AllDownloadsFailed"
              /\ ~zipEntered
              /\ ~zips[path].exists
              /\ ~staging[path].exists

\* C6 as amended: when every item fetch fails, no archive is created, the
\* run ends as all-downloads-failed without entering the archive step, and
\* the staging directory is removed unless a deletion raised OSError (the
\* removal is attempted twice, after the loop and in finally; when both
\* fail the directory stays and the user is told to remove it).
C6_AllFailed ==
    C6Case => /\ outcome = "AllDownloadsFailed"
              /\ ~zipEntered
              /\ ~zips[path].exists
              /\ (~delFailed => ~staging[path].exists)

\* C6 witness: two items, the first without baseUrl, the second failing;
\* nothing archived, staging removed
C6_Witness ==
    /\ C6Case /\ Len(results) = 2
    /\ ~media_items[1].baseUrl /\ media_items[2].baseUrl
    /\ outcome = "AllDownloadsFailed" /\ ~delFailed
    /\ ~staging[path].exists /\ ~zips[path].exists

\* the items of the pages served, one page after the other
RECURSIVE ConcatItems(_)
ConcatItems(pages) ==
    IF pages = <<>> THEN <<>>
    ELSE ConcatItems(SubSeq(pages, 1, Len(pages) - 1)) \o pages[Len(pages)].items

\* the first request carries no token, every later one the nextPageToken
\* of the page before it
ChainOk(req, served) ==
    /\ Len(req) = Len(served)
    /\ req # <<>> /\ req[1] = NoToken
    /\ \A k \in 2..Len(req) : req[k] = served[k - 1].next

\* the last page served is the first one without a token
StopsAtFirstTokenless(served) ==
    \A k \in 1..Len(served) : (served[k].next = NoToken) <=> (k = Len(served))

\* C7: when every page fetch succeeds, both pagination loops start without
\* a cursor, request each next page with the nextPageToken of the page
\* before, stop at the first page without a token, and return the pages'
\* items concatenated in page order.
C7_Pagination ==
    /\ (pc = "check" /\ ~mFailed) =>
          /\ ChainOk(mReq, mServed)
          /\ StopsAtFirstTokenless(mServed)
          /\ media_items = ConcatItems(mServed)
    /\ (mainpc \in {"loop", "done"} /\ albReq # <<>> /\ ~albFailed) =>
          /\ ChainOk(albReq, albServed)
          /\ StopsAtFirstTokenless(albServed)
          /\ albums = ConcatItems(albServed)
    /\ (pc = "get_items" /\ mServed # <<>>) =>
          /\ mTok = mServed[Len(mServed)].next
          /\ \A k \in 1..Len(mServed) : mServed[k].next # NoToken
    /\ (mainpc = "list_albums" /\ albServed # <<>>) =>
          /\ albTok = albServed[Len(albServed)].next
          /\ \A k \in 1..Len(albServed) : albServed[k].next # NoToken

\* C7 witness: an album listed in two non-empty pages with different
\* items, the second page the one without a token
C7_Witness ==
    /\ pc = "check" /\ ~mFailed
    /\ Len(mServed) = 2 /\ mReq = <<NoToken, mServed[1].next>>
    /\ mServed[1].items # <<>> /\ mServed[2].items # <<>>
    /\ mServed[1].items # mServed[2].items
    /\ media_items = mServed[1].items \o mServed[2].items

\* C8 as stated: if the archive exists when download_album starts, the run
\* ends as archive-already-exists and no list request is issued for the
\* album.
C8_Original ==
    zipAtStart => /\ mReq = <<>>
                  /\ (RunEnded => outcome = "ArchiveAlreadyExists")

\* C8 as amended: if the archive exists when download_album starts, the run
\* first lists the album's media items (the existence check follows the
\* pagination); with a non-empty listing it then ends as
\* archive-already-exists without creating the staging directory or calling
\* download_media_item, and with an empty listing it ends as no-media-items.
\* A run ends as archive-already-exists only if the archive existed at
\* its start.
C8_CheckAfterListing ==
    /\ (RunEnded /\ zipAtStart) =>
          /\ mReq # <<>>
          /\ ~madeDir /\ results = <<>> /\ ~zipEntered
          /\ outcome = IF media_items = <<>> THEN "NoMediaItems"
                       ELSE "ArchiveAlreadyExists"
    /\ (RunEnded /\ outcome = "ArchiveAlreadyExists") => zipAtStart

\* C8 witness: the archive existed, the listing was requested and returned
\* an item, and the run ended as archive-already-exists
C8_Witness ==
    /\ RunEnded /\ zipAtStart
    /\ mReq # <<>> /\ media_items # <<>>
    /\ outcome = "ArchiveAlreadyExists" /\ ~madeDir

\* C9: in --all, when main() has ended, download_album has been called
\* once for every album list_albums returned, in list order, whatever the
\* outcome of each album.
C9_EveryAlbumInvoked ==
    (mode = "all" /\ mainpc \in {"done", "crashed"}) =>
        invoked = [k \in 1..Len(albums) |-> k]

\* C10: download_media_item returns with the destination absent or holding
\* the complete body, never truncated (stated for the calls that found no
\* file at the destination and in which unlink did not raise).
C10_AllOrNothing ==
    (DmiReturned /\ preFile = "absent" /\ ~unlinkFailed) =>
        /\ ThisFile \in {"absent", "complete"}
        /\ (~ret => ThisFile = "absent")

\* C11: when a page fetch fails, no further page is requested, the items
\* of the pages already fetched are kept, and the failure reaches the
\* caller: a run whose listing failed does not end the way a run with a
\* complete, empty listing ends.
C11_FailureSurfaced ==
    /\ (pc = "check" /\ mFailed) =>
          /\ Len(mReq) = Len(mServed) + 1
          /\ media_items = ConcatItems(mServed)
    /\ (RunEnded /\ mFailed) => outcome # "NoMediaItems"

\* the two parts of C11 the code does keep: traversal stops at the failed
\* request and the earlier pages are kept
C11_StopsAndKeeps ==
    (pc = "check" /\ mFailed) =>
        /\ Len(mReq) = Len(mServed) + 1
        /\ media_items = ConcatItems(mServed)

\* fetches that have started their attempts and not yet returned
InFlight == IF pc = "attempt" THEN 1 ELSE 0
ItemNames == { media_items[k].filename : k \in 1..Len(media_items) }
AllSucceeded ==
    /\ Len(results) = Len(media_items)
    /\ \A k \in 1..Len(results) : results[k]

\* C12 as stated: at most 5 fetches are in flight, and for n items with
\* distinct filenames whose fetches all succeed the staging directory
\* holds exactly n distinct files when the item loop has returned.
C12_Original ==
    /\ InFlight <= 5
    /\ (pc = "after_loop" /\ DistinctNames /\ AllSucceeded) =>
          Cardinality(RegularFiles(staging[path])) = Len(media_items)

\* C12 as amended: the fetches of an album run one after the other (at most
\* one is in flight, so no two write the same path), and for n items with
\* distinct filenames whose fetches all succeed the staging directory
\* holds, when the loop has returned, one file per item next to the files
\* it held when the run started: exactly n files if it held no other file.
C12_Sequential ==
    /\ InFlight <= 1
    /\ (pc \in {"attempt", "item_ret"}) => Len(results) = i - 1
    /\ (pc = "after_loop" /\ DistinctNames /\ AllSucceeded) =>
          /\ RegularFiles(staging[path]) =
                ItemNames \cup { n \in Names : startFiles[n] # "absent" }
          /\ ({ n \in Names : startFiles[n] # "absent" } \subseteq ItemNames =>
                Cardinality(RegularFiles(staging[path])) = Len(media_items))

\* C12 witness: two items with distinct filenames, both fetched, two files
C12_Witness ==
    /\ pc = "after_loop" /\ DistinctNames /\ AllSucceeded
    /\ Len(media_items) = 2 /\ ~dirAtStart
    /\ Cardinality(RegularFiles(staging[path])) = 2

\* the all-failed decision or the archive step has begun in this run
DecisionBegun ==
    \/ pc \in {"after_loop", "zip"}
    \/ zipEntered
    \/ outcome \in {"AllDownloadsFailed", "ArchiveCreated", "ArchiveFailed"}

\* C13: download_media_item is called once for every listed item, in list
\* order (the call for item i is made when exactly the i-1 items before it
\* have returned, whatever they returned), and the all-failed decision and
\* the archive step begin only when every item's call has returned.
C13_OncePerItem ==
    /\ (pc \in {"item", "attempt", "item_ret"}) =>
          /\ i \in 1..Len(media_items)
          /\ Len(results) = i - 1
    /\ (pc # "idle" /\ DecisionBegun) => Len(results) = Len(media_items)

\* C13 witness: the first item failed, the second was fetched all the same,
\* and the archive step begins with both results in
C13_Witness ==
    /\ pc = "zip" /\ results = <<FALSE, TRUE>>
    /\ media_items[1].baseUrl

\* number of the first n results that equal b
RECURSIVE CountOf(_, _, _)
CountOf(rs, n, b) ==
    IF n = 0 THEN 0
    ELSE CountOf(rs, n - 1, b) + (IF rs[n] = b THEN 1 ELSE 0)

\* C14: during the item loop download_count + fail_count is the number of
\* items already processed, download_count is the number of calls that
\* returned True (fetched, or skipped as already existing) and fail_count
\* the number of all other calls; when the loop has finished the sum is
\* the number of listed items.
C14_CountsAddUp ==
    (pc \in {"item", "attempt", "item_ret", "after_loop", "zip"}) =>
        /\ download_count + fail_count = Len(results)
        /\ download_count = CountOf(results, Len(results), TRUE)
        /\ fail_count = CountOf(results, Len(results), FALSE)
        /\ (pc \in {"after_loop", "zip"}) =>
              download_count + fail_count = Len(media_items)

\* C14 witness: the loop has finished over one item skipped as existing
\* and one failed item
C14_Witness ==
    /\ pc = "after_loop" /\ Len(media_items) = 2
    /\ download_count = 1 /\ fail_count = 1
    /\ startFiles[media_items[1].filename] # "absent"
    /\ results = <<TRUE, FALSE>>

\* what the call for media_items[i] returns when it depends on nothing but
\* the item, the staging directory as the run found it, and the item's own
\* attempts
OwnResult ==
    /\ media_items[i].baseUrl
    /\ \/ startFiles[media_items[i].filename] # "absent"
       \/ last = "ok"
OwnBehaviourOnly ==
    /\ preFile = startFiles[media_items[i].filename]
    /\ ret = OwnResult

\* C15: the counts and the archive entries do not depend on the order in
\* which the items are processed: every call of download_media_item finds
\* returns what the item's own fetch behaviour gives on the directory as
\* the run found it, whatever was processed before it.
C15_OrderIndependent == (pc = "item_ret") => (ret = OwnResult)

\* C15 for items with pairwise distinct filenames: no item's call sees
\* what another item's call left behind.
C15_DistinctNamesIndependent ==
    (pc = "item_ret" /\ DistinctNames) => OwnBehaviourOnly

\* the processed items that have no baseUrl
WithoutBaseUrl == { k \in 1..Len(results) : ~media_items[k].baseUrl }

\* C16: a call of download_media_item on an item without baseUrl returns
\* False with no GET, no sleep and the destination as it was before the
\* call, and download_album counts every such item as failed.
C16_NoBaseUrl ==
    /\ (DmiReturned /\ ~ThisItem.baseUrl) =>
          /\ ~ret
          /\ gets = 0 /\ sleeps = 0
          /\ ThisFile = preFile
    /\ (pc \in {"item", "attempt", "item_ret", "after_loop", "zip"}) =>
          /\ \A k \in WithoutBaseUrl : ~results[k]
          /\ fail_count >= Cardinality(WithoutBaseUrl)

\* C16 witness: the call for an item without baseUrl has returned, no file
\* at its destination, after an item that was fetched
C16_Witness ==
    /\ DmiReturned /\ ~ThisItem.baseUrl
    /\ i = 2 /\ results = <<TRUE>> /\ WithoutBaseUrl = {}
    /\ ThisFile = "absent"

\* C16 witness of the count: the loop has finished, the item without
\* baseUrl is the one counted as failed
C16_WitnessCounted ==
    /\ pc = "after_loop" /\ WithoutBaseUrl = {2}
    /\ download_count = 1 /\ fail_count = 1

\* C17: an error that is no transport/HTTP error ends the call of
\* download_media_item with False on the attempt where it occurs: the
\* failing GET is the last one, no sleep follows it (the sleeps are those
\* of the earlier attempts), and a further attempt only ever follows a
\* transport/HTTP error.
C17_NoRetryOnOtherError ==
    /\ (DmiReturned /\ last \in {"open_error", "write_error"}) =>
          /\ ~ret
          /\ gets = attempt + 1
          /\ sleeps = attempt
    /\ (pc = "attempt") => last \in {"none", "http_error", "stream_error"}

\* C17 witness: the second attempt ended in an error while writing the
\* body, a third attempt was left, and the call has returned
C17_Witness ==
    /\ DmiReturned /\ last = "write_error"
    /\ gets = 2 /\ sleeps = 1 /\ attempt + 1 < MAX_RETRIES
    /\ ~ret

\* C18: a run of download_album that has ended has ended in one of the
\* five terminal states, never by an error leaving download_album.
C18_FiveTerminalStates == RunEnded => outcome \in Terminal

\* the albums main() has processed before the current one whose archive
\* path is the current album's
EarlierSamePath == { j \in 1..(ai - 1) : SafeTitle(albums[j]) = path }

\* C19: a run of download_album ends as archive-already-exists only for an
\* archive of its own album: never for an archive that the run of another
\* album, processed earlier by the same main loop, wrote at the same path
\* (an archive that was there when the program started is OldZip).
C19_OwnArchiveOnly ==
    (RunEnded /\ outcome = "ArchiveAlreadyExists") =>
        (EarlierSamePath = {} \/ zips[path] = OldZip)

\* C20: whenever the archive-writing step is reached the staging directory
\* holds at least one regular file, and an archive that download_album
\* created has at least one entry.
C20_NoEmptyArchive ==
    /\ (pc = "zip") => RegularFiles(staging[path]) # {}
    /\ (pc \in {"finally", "returned"} /\ outcome = "ArchiveCreated") =>
          zips[path].entries # {}

\* C20 witness: the archive step is reached after one failed and one
\* fetched item, in a staging directory the run created, with one file
C20_Witness ==
    /\ pc = "zip" /\ ~dirAtStart
    /\ download_count = 1 /\ fail_count = 1
    /\ Cardinality(RegularFiles(staging[path])) = 1

\* where a run is between the call of download_album and its return when it
\* has neither created the staging directory nor called download_media_item
BeforeTry == {"get_items", "check", "returned"}

\* C21: in a run of download_album that found the archive at its target
\* path when it started, no step changes the filesystem (neither the
\* archives nor the staging directories), the staging directory is not
\* created, and download_media_item is never called, so no GET of an item
\* is issued.
C21_ExistingArchiveFrame ==
    /\ [](zipAtStart =>
            /\ pc \in BeforeTry
            /\ ~madeDir /\ ~zipEntered
            /\ results = <<>> /\ gets = 0)
    /\ [][zipAtStart => (zips' = zips /\ staging' = staging)]_vars

\* C21 witness: the archive and a staging directory with a file were both
\* there at the start, the album lists an item, and the run has ended as
\* archive-already-exists with the directory and its file still in place
C21_Witness ==
    /\ RunEnded /\ zipAtStart /\ dirAtStart
    /\ media_items # <<>>
    /\ outcome = "ArchiveAlreadyExists"
    /\ zips[path] = OldZip
    /\ staging[path].exists /\ staging[path].files = startFiles
    /\ RegularFiles(staging[path]) # {}

====
